---- MODULE Spec2Model ----
\* A model of pylzma's 7z archive writer (create7zfile.py) and of the
\* stand-alone VarInt codec (tmp/test_encode_uint64.py).
\*
\* Bytes are integers 0..255 and byte strings are sequences of them.  An
\* unsigned 64-bit integer is kept as its 8 little-endian bytes (a "U64"),
\* because the values the codec is about do not fit a machine integer of the
\* model checker; small counts and sizes are ordinary naturals and become a
\* U64 where the code hands them to _write_64_bit or pack('<Q', ...).
EXTENDS Integers, Sequences, FiniteSets, TLC

VARIABLES
    \* ---- codec harness (tmp/test_encode_uint64.py) ----
    c_pc,        \* "init" | "encoded" | "cut" | "decoded"
    c_value,     \* the U64 handed to encode
    c_enc,       \* bytes returned by encode(c_value)
    c_w64,       \* bytes written by SZFile._write_64_bit(c_value, file)
    c_buf,       \* the stream handed to decode
    c_out,       \* outcome of decode(c_buf)
    \* ---- archive writer (create7zfile.py, class SZFile) ----
    platform,          \* host the interpreter runs on: size of C long, byte order
    fd,                \* bytes of the output file as seen through self._fd
    fpos,              \* position of self._fd
    closed,            \* self._fd.closed
    disk,              \* bytes of the output as of the last flush()
    header_written,    \* self._header_written
    files,             \* self._files: the OrderedDict, as the sequence of its values
    src_pos,           \* self._src_pos
    end_header_pos,    \* self._end_header_pos (-1 is None)
    end_header,        \* self._end_header.getvalue() (<<>> while None)
    sig_header_pos,    \* self._sig_header_pos (-1 is None)
    calls,             \* history: one record per write() call on the open archive
    last               \* history: the last operation and how it ended

cvars == <<c_pc, c_value, c_enc, c_w64, c_buf, c_out>>
wvars == <<platform, fd, fpos, closed, disk, header_written, files, src_pos,
           end_header_pos, end_header, sig_header_pos, calls, last>>
vars == <<cvars, wvars>>

\* ------------------------------------------------------------------ bytes
Byte == 0..255

Zeros(n) == [j \in 1..n |-> 0]

RECURSIVE Pow2(_)
Pow2(k) == IF k = 0 THEN 1 ELSE 2 * Pow2(k - 1)

\* a & b, a | b, a ^ b on bytes, bit by bit
RECURSIVE BitAndN(_, _, _)
BitAndN(a, b, n) ==
    IF n = 0 THEN 0
    ELSE (IF a % 2 = 1 /\ b % 2 = 1 THEN 1 ELSE 0) + 2 * BitAndN(a \div 2, b \div 2, n - 1)

RECURSIVE BitOrN(_, _, _)
BitOrN(a, b, n) ==
    IF n = 0 THEN 0
    ELSE (IF a % 2 = 1 \/ b % 2 = 1 THEN 1 ELSE 0) + 2 * BitOrN(a \div 2, b \div 2, n - 1)

RECURSIVE BitXorN(_, _, _)
BitXorN(a, b, n) ==
    IF n = 0 THEN 0
    ELSE (IF a % 2 # b % 2 THEN 1 ELSE 0) + 2 * BitXorN(a \div 2, b \div 2, n - 1)

BitAnd(a, b) == BitAndN(a, b, 8)
BitOr(a, b) == BitOrN(a, b, 8)
BitXor(a, b) == BitXorN(a, b, 8)

\* ------------------------------------------------------------------ U64
\* Python integers below 2^64 as 8 little-endian bytes.
U64Zero == Zeros(8)

\* n as a U64, for the small naturals of the model (n < 2^24)
ToU64(n) == <<n % 256, (n \div 256) % 256, (n \div 65536) % 256, 0, 0, 0, 0, 0>>

\* the integer a U64 stands for, when it is below 2^24
IsSmall(u) == \A j \in 4..8 : u[j] = 0
ToInt(u) == u[1] + 256 * u[2] + 65536 * u[3]

\* value >> (8 * n)
Shr8(u, n) == [j \in 1..8 |-> IF j + n <= 8 THEN u[j + n] ELSE 0]

\* value < (1 << k), 0 <= k <= 63
LtPow2(u, k) ==
    /\ u[(k \div 8) + 1] < Pow2(k % 8)
    /\ \A j \in ((k \div 8) + 2)..8 : u[j] = 0

\* x << 8 | y, kept to 64 bits
ShlOr(u, y) == [j \in 1..8 |-> IF j = 1 THEN y ELSE u[j - 1]]

\* h << (8 * n) for a byte h
ShlByte(h, n) == [j \in 1..8 |-> IF j = n + 1 THEN h ELSE 0]

\* a + b modulo 2^64
RECURSIVE AddCarry(_, _, _, _)
AddCarry(a, b, j, carry) ==
    IF j > 8 THEN <<>>
    ELSE <<(a[j] + b[j] + carry) % 256>>
         \o AddCarry(a, b, j + 1, (a[j] + b[j] + carry) \div 256)

AddU64(a, b) == AddCarry(a, b, 1, 0)

\* ------------------------------------------------------------------ VarInt
\* tmp/test_encode_uint64.py: encode(value), the scan of lines 8-17.
\* Returns first_byte and i as the loop leaves them.
RECURSIVE encode_scan(_, _, _, _)
encode_scan(value, first_byte, mask, i) ==
    IF i < 8
    THEN IF LtPow2(value, 7 * (i + 1))
         THEN [first_byte |-> BitOr(first_byte, ToInt(Shr8(value, i))), i |-> i]
         ELSE encode_scan(value, BitOr(first_byte, mask), mask \div 2, i + 1)
    ELSE [first_byte |-> first_byte, i |-> i]

\* lines 21-24: the low i bytes of value, least significant first
RECURSIVE encode_tail(_, _)
encode_tail(value, i) ==
    IF i > 0 THEN <<value[1]>> \o encode_tail(Shr8(value, 1), i - 1) ELSE <<>>

encode(value) ==
    LET s == encode_scan(value, 0, 128, 0)
    IN  <<s.first_byte>> \o encode_tail(value, s.i)

\* create7zfile.py: SZFile._write_64_bit(value, file), the bytes it writes.
RECURSIVE w64_scan(_, _, _, _)
w64_scan(value, first_byte, mask, i) ==
    IF i < 8
    THEN IF LtPow2(value, 7 * (i + 1))
         THEN [first_byte |-> BitOr(first_byte, ToInt(Shr8(value, i))), i |-> i]
         ELSE w64_scan(value, BitOr(first_byte, mask), mask \div 2, i + 1)
    ELSE [first_byte |-> first_byte, i |-> i]

\* faulty variant: the extra bytes most significant first
RECURSIVE w64_tail_be(_, _)
w64_tail_be(value, i) ==
    IF i > 0 THEN w64_tail_be(Shr8(value, 1), i - 1) \o <<value[1]>> ELSE <<>>

RECURSIVE w64_tail(_, _)
w64_tail(value, i) ==
    IF i > 0 THEN <<value[1]>> \o w64_tail(Shr8(value, 1), i - 1) ELSE <<>>

write_64_bit(value) ==
    LET s == w64_scan(value, 0, 128, 0)
    IN  <<s.first_byte>> \o w64_tail(value, s.i)

\* tmp/test_encode_uint64.py: decode(buf).
\* buf.read(n): at most n bytes, fewer when the stream ends first.
StreamRead(buf, pos, n) ==
    SubSeq(buf, pos + 1, IF pos + n <= Len(buf) THEN pos + n ELSE Len(buf))

\* line 35-36: bytes.reverse(); reduce(lambda x, y: x << 8 | y, bytes) or 0
RECURSIVE reduce_shl_or(_, _)
reduce_shl_or(x, rest) ==
    IF rest = <<>> THEN x ELSE reduce_shl_or(ShlOr(x, Head(rest)), Tail(rest))

Reverse(s) == [j \in 1..Len(s) |-> s[Len(s) + 1 - j]]

decode_value(bytes) ==
    LET r == Reverse(bytes)
    IN  IF r = <<>> THEN U64Zero ELSE reduce_shl_or(ToU64(Head(r)), Tail(r))

\* lines 32-40: the for loop over i in range(8); falling off its end returns None
RECURSIVE decode_loop(_, _, _, _)
decode_loop(buf, b, mask, i) ==
    IF i >= 8 THEN [kind |-> "None"]
    ELSE IF BitAnd(b, mask) = 0
         THEN LET bytes == StreamRead(buf, 1, i)
                  value == decode_value(bytes)
                  highpart == BitAnd(b, mask - 1)
              IN  [kind |-> "int", value |-> AddU64(value, ShlByte(highpart, i))]
         ELSE decode_loop(buf, b, mask \div 2, i + 1)

\* line 30: ord(buf.read(1)) raises TypeError on an exhausted stream
decode(buf) ==
    IF StreamRead(buf, 0, 1) = <<>> THEN [kind |-> "TypeError"]
    ELSE decode_loop(buf, buf[1], 128, 0)

\* ------------------------------------------------------------------ codec harness
\* The inputs the codec is exercised on: the test vectors of
\* tmp/test_encode_uint64.py, every length boundary 2^(7k)-1 and 2^(7k), and
\* families of values of every byte length.
Pow2U64(k) == [j \in 1..8 |-> IF j = (k \div 8) + 1 THEN Pow2(k % 8) ELSE 0]

Pow2Minus1U64(k) ==
    [j \in 1..8 |-> IF j < (k \div 8) + 1 THEN 255
                    ELSE IF j = (k \div 8) + 1 THEN Pow2(k % 8) - 1 ELSE 0]

FillBytes == {1, 85, 128, 255}

CodecValues ==
    {ToU64(0), ToU64(8911), ToU64(26948), Pow2U64(63), [j \in 1..8 |-> 255]}
    \cup {Pow2U64(7 * k) : k \in 1..8}
    \cup {Pow2Minus1U64(7 * k) : k \in 1..8}
    \cup {[j \in 1..8 |-> IF j <= n THEN b ELSE 0] : n \in 0..8, b \in FillBytes}
    \cup {[j \in 1..8 |-> IF j <= n THEN 17 * j ELSE 0] : n \in 1..8}

NoOutcome == [kind |-> "none"]

CodecIdle ==
    /\ c_pc = "idle"
    /\ c_value = U64Zero
    /\ c_enc = <<>>
    /\ c_w64 = <<>>
    /\ c_buf = <<>>
    /\ c_out = NoOutcome

CodecInit ==
    /\ c_pc = "init"
    /\ c_value \in CodecValues
    /\ c_enc = <<>>
    /\ c_w64 = <<>>
    /\ c_buf = <<>>
    /\ c_out = NoOutcome

\* encode(value) and SZFile._write_64_bit(value, file) on the same value; the
\* encoded bytes become the stream, as io.BytesIO(encoded_data)
Encode ==
    /\ c_pc = "init"
    /\ c_enc' = encode(c_value)
    /\ c_w64' = write_64_bit(c_value)
    /\ c_buf' = encode(c_value)
    /\ c_pc' = "encoded"
    /\ UNCHANGED <<c_value, c_out>>

\* the stream ends early: only the first n bytes of the encoding arrive
Cut ==
    /\ c_pc = "encoded"
    /\ \E n \in 0..(Len(c_buf) - 1) : c_buf' = SubSeq(c_buf, 1, n)
    /\ c_pc' = "cut"
    /\ UNCHANGED <<c_value, c_enc, c_w64, c_out>>

\* decode(buf) on the stream as it stands
Decode ==
    /\ c_pc \in {"encoded", "cut"}
    /\ c_out' = decode(c_buf)
    /\ c_pc' = "decoded"
    /\ UNCHANGED <<c_value, c_enc, c_w64, c_buf>>

\* ------------------------------------------------------------------ library
Min(a, b) == IF a < b THEN a ELSE b
Max(a, b) == IF a > b THEN a ELSE b

RECURSIVE Concat(_)
Concat(ss) == IF ss = <<>> THEN <<>> ELSE Head(ss) \o Concat(Tail(ss))

\* file.write(data) with the file position at pos: overwrite in place, grow the
\* file as needed, the gap left by a seek past the end reading as zero bytes
FileWrite(f, pos, data) ==
    IF data = <<>> THEN f
    ELSE [j \in 1..Max(Len(f), pos + Len(data)) |->
            IF j > pos /\ j <= pos + Len(data) THEN data[j - pos]
            ELSE IF j <= Len(f) THEN f[j] ELSE 0]

\* zlib.crc32: the reflected CRC-32 of polynomial 0xEDB88320, a 32-bit value
\* kept as its 4 little-endian bytes (what pack('<L', crc) emits)
U32Zero == Zeros(4)
CrcPoly == <<32, 131, 184, 237>>

XorTable == [a \in Byte |-> [b \in Byte |-> BitXor(a, b)]]

Xor4(x, y) == <<XorTable[x[1]][y[1]], XorTable[x[2]][y[2]],
                XorTable[x[3]][y[3]], XorTable[x[4]][y[4]]>>
Shr1(x) == <<(x[1] \div 2) + (x[2] % 2) * 128, (x[2] \div 2) + (x[3] % 2) * 128,
             (x[3] \div 2) + (x[4] % 2) * 128, x[4] \div 2>>

RECURSIVE CrcRounds(_, _)
CrcRounds(c, n) ==
    IF n = 0 THEN c
    ELSE CrcRounds(IF c[1] % 2 = 1 THEN Xor4(Shr1(c), CrcPoly) ELSE Shr1(c), n - 1)

CrcTable == [n \in Byte |-> CrcRounds(<<n, 0, 0, 0>>, 8)]

Not4(x) == <<255 - x[1], 255 - x[2], 255 - x[3], 255 - x[4]>>

\* one byte folded into the running value: table[(c ^ byte) & 0xff] ^ (c >> 8)
CrcStep(c, byte) == Xor4(CrcTable[XorTable[c[1]][byte]], <<c[2], c[3], c[4], 0>>)

\* the bytes data[lo..hi] folded in, first to last.  The range is halved and
\* the left half is computed before the right one is entered (left[1] >= 0
\* always holds), which keeps the evaluation shallow.
RECURSIVE CrcUpdate(_, _, _, _)
CrcUpdate(c, data, lo, hi) ==
    IF lo > hi THEN c
    ELSE IF lo = hi THEN CrcStep(c, data[lo])
    ELSE LET left == CrcUpdate(c, data, lo, (lo + hi) \div 2)
         IN  IF left[1] >= 0 THEN CrcUpdate(left, data, ((lo + hi) \div 2) + 1, hi)
             ELSE left

\* crc32(data, value)
crc32(data, value) == Not4(CrcUpdate(Not4(value), data, 1, Len(data)))

\* struct.pack
pack_Q_le(n) == ToU64(n)
pack_L_le(crc) == crc
\* pack('L', crc): native size and byte order of a C unsigned long
pack_L_native(crc, host) ==
    LET le == crc \o Zeros(host.long_size - 4)
    IN  IF host.byteorder = "little" THEN le ELSE Reverse(le)

\* str.encode('utf-16'): a byte-order mark, then the code units of the host's
\* byte order; a code point above 0xFFFF becomes a surrogate pair
Utf16Unit(u, host) ==
    IF host.byteorder = "little" THEN <<u % 256, u \div 256>> ELSE <<u \div 256, u % 256>>

Utf16Char(cp, host) ==
    IF cp < 65536 THEN Utf16Unit(cp, host)
    ELSE Utf16Unit(55296 + ((cp - 65536) \div 1024), host)
         \o Utf16Unit(56320 + ((cp - 65536) % 1024), host)

encode_utf16(name, host) ==
    Utf16Unit(65279, host) \o Concat([j \in 1..Len(name) |-> Utf16Char(name[j], host)])

\* chr(n).encode(): UTF-8 of one code point below 0x800
encode_chr(n) == IF n < 128 THEN <<n>> ELSE <<192 + (n \div 64), 128 + (n % 64)>>

\* lzma.LZMACompressor(format=FORMAT_RAW, filters=[LZMA2]): an opaque byte-stream
\* transformer.  It is modelled by the LZMA2 streams made of stored chunks,
\* one per compress() call: a chunk is a control byte (1 for the first chunk,
\* 2 after), the 16-bit big-endian length minus one, and the data; flush()
\* ends the stream with a zero byte.
CompressorInit == [started |-> FALSE]

Lzma2Chunk(data, first) ==
    <<IF first THEN 1 ELSE 2, (Len(data) - 1) \div 256, (Len(data) - 1) % 256>> \o data

compressor_compress(st, data) ==
    [out |-> Lzma2Chunk(data, ~st.started), st |-> [started |-> TRUE]]

compressor_flush(st) == <<0>>
\* ------------------------------------------------------------------ create7zfile.py
MAGIC_7Z == <<55, 122, 188, 175, 39, 28>>
VERSION_7Z == <<0, 4>>

PROPERTY_HEADER == 1
PROPERTY_MAIN_STREAMS_INFO == 4
PROPERTY_FILES_INFO == 5
PROPERTY_PACK_INFO == 6
PROPERTY_UNPACK_INFO == 7
PROPERTY_SUBSTREAMS_INFO == 8
PROPERTY_SIZE == 9
PROPERTY_CRC == 10
PROPERTY_FOLDER == 11
PROPERTY_CODERS_UNPACK_SIZE == 12
PROPERTY_END == 0
FILE_PROPERTY_NAME == 17
FILE_PROPERTY_LAST_WRITE_TIME == 20
FILE_PROPERTY_ATTRIBUTES == 21

\* SZInfo(filename, modify_time, uncompressed_size, attributes)
SZInfo(filename, modify_time, uncompressed_size, attributes) ==
    [filename |-> filename,
     uncompressed_size |-> uncompressed_size,
     attributes |-> attributes,
     compressed_size |-> 0,
     crc |-> U32Zero,
     modify_time |-> modify_time]

\* self._files[filename] = sz_info on the OrderedDict: a key already present
\* keeps its place and gets the new value, a new key goes to the end
DictSet(d, key, value) ==
    IF \E j \in 1..Len(d) : d[j].filename = key
    THEN [j \in 1..Len(d) |-> IF d[j].filename = key THEN value ELSE d[j]]
    ELSE Append(d, value)

\* _write_64_bit on a small natural
W64(n) == write_64_bit(ToU64(n))

\* SZFile._write_main_pack_info: the bytes it appends to self._end_header
write_main_pack_info(fs) ==
    <<PROPERTY_PACK_INFO>>
    \o W64(0)
    \o W64(Len(fs))
    \o <<PROPERTY_SIZE>>
    \o Concat([j \in 1..Len(fs) |-> W64(fs[j].compressed_size)])
    \o <<PROPERTY_END>>

\* SZFile._write_coder_info
write_coder_info == encode_chr(BitOr(BitOr(0, 32), 1))

\* SZFile._write_folders_info
write_folders_info ==
    W64(1) \o write_coder_info \o <<33>> \o W64(1) \o <<6>>

\* SZFile._write_main_unpack_info
write_main_unpack_info(fs) ==
    <<PROPERTY_UNPACK_INFO, PROPERTY_FOLDER>>
    \o W64(Len(fs))
    \o <<0>>
    \o write_folders_info
    \o <<PROPERTY_CODERS_UNPACK_SIZE>>
    \o Concat([j \in 1..Len(fs) |-> W64(fs[j].uncompressed_size)])
    \o <<PROPERTY_END>>

\* SZFile._write_main_digests
write_main_digests(fs, host) ==
    <<1>> \o Concat([j \in 1..Len(fs) |-> pack_L_native(fs[j].crc, host)])

\* SZFile._write_main_substreams
write_main_substreams(fs, host) ==
    <<PROPERTY_SUBSTREAMS_INFO, PROPERTY_CRC>>
    \o write_main_digests(fs, host)
    \o <<PROPERTY_END>>

\* SZFile._write_main_streams
write_main_streams(fs, host) ==
    <<PROPERTY_MAIN_STREAMS_INFO>>
    \o write_main_pack_info(fs)
    \o write_main_unpack_info(fs)
    \o write_main_substreams(fs, host)
    \o <<PROPERTY_END>>

\* SZFile._write_files_info, lines 279-285: the value handed to _write_64_bit
RECURSIVE SumNameLen(_)
SumNameLen(fs) == IF fs = <<>> THEN 0 ELSE Len(Head(fs).filename) * 2 + SumNameLen(Tail(fs))

files_info_name_size(fs) == 3 + SumNameLen(fs)

\* lines 286-290: external flag, then each name without its byte-order mark and
\* two zero bytes
files_info_names(fs, host) ==
    <<0>>
    \o Concat([j \in 1..Len(fs) |->
                 LET e == encode_utf16(fs[j].filename, host)
                 IN  SubSeq(e, 3, Len(e)) \o <<0, 0>>])

\* lines 297-308: last write time and attributes, constants of the code
files_info_times == <<FILE_PROPERTY_LAST_WRITE_TIME>> \o W64(10) \o <<1, 0>>
                    \o <<243, 207, 149, 8, 124, 31, 212, 1>>
files_info_attributes == <<FILE_PROPERTY_ATTRIBUTES>> \o W64(6) \o <<1>> \o <<0, 32, 32, 0>>

write_files_info(fs, host) ==
    <<PROPERTY_FILES_INFO>>
    \o W64(Len(fs))
    \o <<FILE_PROPERTY_NAME>>
    \o W64(files_info_name_size(fs))
    \o files_info_names(fs, host)
    \o files_info_times
    \o files_info_attributes
    \o <<PROPERTY_END, PROPERTY_END>>

\* SZFile._write_end_header, lines 120-124: the assembled self._end_header
build_end_header(fs, host) ==
    <<PROPERTY_HEADER>>
    \o write_main_streams(fs, host)
    \o write_files_info(fs, host)
    \o <<PROPERTY_END>>

\* faulty variant: the offset field holds the absolute position of the end header
trailer_bytes_abs(pos, hdr) ==
    LET end_header_offset == pack_Q_le(pos)
        end_header_size == pack_Q_le(Len(hdr))
        end_header_crc == pack_L_le(crc32(hdr, U32Zero))
        start_header_crc ==
            pack_L_le(crc32(end_header_offset \o end_header_size \o end_header_crc, U32Zero))
    IN  start_header_crc \o end_header_offset \o end_header_size \o end_header_crc

\* lines 126-129 and 134-137: the 24 bytes written at self._sig_header_pos
trailer_bytes(pos, hdr) ==
    LET end_header_offset == pack_Q_le(pos - 32)
        end_header_size == pack_Q_le(Len(hdr))
        end_header_crc == pack_L_le(crc32(hdr, U32Zero))
        start_header_crc ==
            pack_L_le(crc32(end_header_offset \o end_header_size \o end_header_crc, U32Zero))
    IN  start_header_crc \o end_header_offset \o end_header_size \o end_header_crc

\* ------------------------------------------------------------------ bounds and inputs
MaxCalls == 3           \* write() calls on the open archive
MaxContentLen == 3      \* bytes in the longest source file
DEFAULT_BUFFER_SIZE == 2    \* io.DEFAULT_BUFFER_SIZE, scaled to the source files of the model

\* hosts: sizeof(unsigned long) and sys.byteorder
Platforms == [long_size : {4, 8}, byteorder : {"little", "big"}]

\* source paths, as sequences of code points: "a" and "bé"
Paths == {<<97>>, <<98, 233>>}

\* what a source file holds when it is read
Content(n) == [j \in 1..n |-> 96 + j]
Contents == {Content(0), Content(MaxContentLen)}

NumChunks(content) == (Len(content) + DEFAULT_BUFFER_SIZE - 1) \div DEFAULT_BUFFER_SIZE

\* ------------------------------------------------------------------ SZFile
\* SZFile._compress, lines 92-99: the read loop.  reads is the number of
\* iterations that complete before a read or the compressor raises (-1: none does).
RECURSIVE compress_loop(_, _, _, _, _)
compress_loop(rest, st, info, out, reads) ==
    LET data == SubSeq(rest, 1, Min(Len(rest), DEFAULT_BUFFER_SIZE))
    IN  IF reads = 0 THEN [raised |-> TRUE, st |-> st, info |-> info, out |-> out]
        ELSE IF data = <<>> THEN [raised |-> FALSE, st |-> st, info |-> info, out |-> out]
        ELSE LET c == compressor_compress(st, data)
             IN  compress_loop(
                    SubSeq(rest, Len(data) + 1, Len(rest)),
                    c.st,
                    [info EXCEPT !.compressed_size = @ + Len(c.out),
                                 !.crc = crc32(data, @)],
                    out \o c.out,
                    IF reads > 0 THEN reads - 1 ELSE reads)

\* lines 92-103: the loop, then compressor.flush(); out is what went to self._fd
compress_run(content, sz_info, reads) ==
    LET r == compress_loop(content, CompressorInit, sz_info, <<>>, reads)
        compressed_data == compressor_flush(r.st)
    IN  IF r.raised THEN r
        ELSE [raised |-> FALSE,
              st |-> r.st,
              info |-> [r.info EXCEPT !.compressed_size = @ + Len(compressed_data)],
              out |-> r.out \o compressed_data]

\* SZFile._write_sig_header, run by write() while self._header_written is unset
sig_fd == IF header_written THEN fd
          ELSE FileWrite(FileWrite(fd, fpos, MAGIC_7Z), fpos + Len(MAGIC_7Z), VERSION_7Z)
sig_fpos == IF header_written THEN fpos ELSE fpos + Len(MAGIC_7Z) + Len(VERSION_7Z)
sig_pos == IF header_written THEN sig_header_pos ELSE fpos + Len(MAGIC_7Z) + Len(VERSION_7Z)

Result(op, result) == [op |-> op, result |-> result]

\* the history record of a write() call that returned: the entries and the
\* write cursor it found, the source bytes and the bytes _compress wrote
Call(filename, data, packed) ==
    [result |-> "ok", filename |-> filename, data |-> data, packed |-> packed,
     at |-> src_pos, before |-> files]

\* the history record of a write() call that raised: the entries and the write
\* cursor it found
Raised == [result |-> "raised", at |-> src_pos, before |-> files]

WriterInit ==
    /\ platform \in Platforms
    /\ fd = <<>>
    /\ fpos = 0
    /\ closed = FALSE
    /\ disk = <<>>
    /\ header_written = FALSE
    /\ files = <<>>
    /\ src_pos = 32
    /\ end_header_pos = -1
    /\ end_header = <<>>
    /\ sig_header_pos = -1
    /\ calls = <<>>
    /\ last = Result("open", "ok")

\* SZFile._write_end_header on the entries fs with the cursor at pos, the file
\* f positioned there: the file after the header and the trailer are written
end_header_fd(f, pos, fs) ==
    LET hdr == build_end_header(fs, platform)
    IN  FileWrite(FileWrite(f, pos, hdr), sig_pos, trailer_bytes(pos, hdr))

\* SZFile.write(filename) returning normally: signature header on the first
\* call, stat, _compress, the dictionary store, _write_end_header
WriteOk(filename, content) ==
    /\ ~closed
    /\ Len(calls) < MaxCalls
    /\ LET sz_info == SZInfo(filename, "st_mtime", Len(content), 8192)
           run == compress_run(content, sz_info, -1)
           fd2 == FileWrite(sig_fd, src_pos, run.out)
           pos2 == src_pos + Len(run.out)
           fs == DictSet(files, filename, run.info)
       IN  /\ header_written' = TRUE
           /\ sig_header_pos' = sig_pos
           /\ disk' = fd2
           /\ src_pos' = pos2
           /\ files' = fs
           /\ end_header_pos' = pos2
           /\ end_header' = build_end_header(fs, platform)
           /\ fd' = end_header_fd(fd2, pos2, fs)
           /\ fpos' = sig_pos + 24
           /\ calls' = Append(calls, Call(filename, content, run.out))
    /\ last' = Result("write", "ok")
    /\ UNCHANGED <<platform, closed>>

\* write(filename) when os.stat(filename) raises
WriteStatFails(filename) ==
    /\ ~closed
    /\ Len(calls) < MaxCalls
    /\ header_written' = TRUE
    /\ sig_header_pos' = sig_pos
    /\ fd' = sig_fd
    /\ fpos' = sig_fpos
    /\ calls' = Append(calls, Raised)
    /\ last' = Result("write", "raised")
    /\ UNCHANGED <<platform, closed, disk, files, src_pos, end_header_pos, end_header>>

\* write(filename) when _compress raises: open() of the source (kind "open"),
\* a read of it (kind "read") or the compressor (kind "codec"), after `reads`
\* iterations of the loop have written their output
WriteCompressFails(filename, content, kind, reads) ==
    /\ ~closed
    /\ Len(calls) < MaxCalls
    /\ kind = "open" => reads = 0
    /\ LET sz_info == SZInfo(filename, "st_mtime", Len(content), 8192)
           run == compress_run(content, sz_info, reads)
       IN  /\ run.raised
           /\ fd' = FileWrite(sig_fd, src_pos, run.out)
           /\ fpos' = src_pos + Len(run.out)
           /\ calls' = Append(calls, Raised)
    /\ header_written' = TRUE
    /\ sig_header_pos' = sig_pos
    /\ last' = Result("write", "raised")
    /\ UNCHANGED <<platform, closed, disk, files, src_pos, end_header_pos, end_header>>

\* write(filename) on a closed archive: the first use of self._fd raises
\* ValueError (the signature header write, or the seek of _compress)
WriteClosed ==
    /\ closed
    /\ last' = Result("write", "ValueError")
    /\ UNCHANGED <<platform, fd, fpos, closed, disk, header_written, files, src_pos,
                   end_header_pos, end_header, sig_header_pos, calls>>

\* faulty variant: close() finalizes: it patches the trailer on every call, closed
\* or not
close_finalizes(op) ==
    /\ fd' = FileWrite(fd, 8, trailer_bytes(src_pos, <<>>))
    /\ disk' = fd'
    /\ closed' = TRUE
    /\ last' = Result(op, "ok")
    /\ UNCHANGED <<platform, fpos, header_written, files, src_pos, end_header_pos,
                   end_header, sig_header_pos, calls>>

\* SZFile.close(): self._fd.flush(), which raises ValueError on a closed
\* file, then self._fd.close()
close(op) ==
    /\ IF closed
       THEN /\ last' = Result(op, "ValueError")
            /\ UNCHANGED <<disk, closed>>
       ELSE /\ disk' = fd
            /\ closed' = TRUE
            /\ last' = Result(op, "ok")
    /\ UNCHANGED <<platform, fd, fpos, header_written, files, src_pos, end_header_pos,
                   end_header, sig_header_pos, calls>>

Close == close("close")

\* SZFile.__exit__: self.close()
Exit == close("__exit__")

Write == \E filename \in Paths, content \in Contents : WriteOk(filename, content)

WriteRaises ==
    \/ \E filename \in Paths : WriteStatFails(filename)
    \/ \E filename \in Paths, content \in Contents, kind \in {"open", "read", "codec"} :
          \E reads \in 0..NumChunks(content) :
              WriteCompressFails(filename, content, kind, reads)
    \/ WriteClosed

Init == WriterInit /\ CodecIdle

Next ==
    \/ Write /\ UNCHANGED cvars
    \/ WriteRaises /\ UNCHANGED cvars
    \/ Close /\ UNCHANGED cvars
    \/ Exit /\ UNCHANGED cvars

Spec == Init /\ [][Next]_vars

InitCodec == WriterInit /\ CodecInit

NextCodec ==
    \/ Encode /\ UNCHANGED wvars
    \/ Cut /\ UNCHANGED wvars
    \/ Decode /\ UNCHANGED wvars

SpecCodec == InitCodec /\ [][NextCodec]_vars

\* ================================================================== properties
\* ------------------------------------------------------------------ reading back
\* The values below are read from the bytes of the output file, the way a
\* reader of the archive finds them.

\* the integer held by a fixed-width little-endian field, when below 2^24
FieldSmall(b) == \A j \in 4..Len(b) : b[j] = 0
FieldInt(b) == b[1] + 256 * b[2] + 65536 * b[3]

\* the 7z number at index p (from 1) of s, for numbers below 2^14
ReadNumber(s, p) ==
    IF s[p] < 128 THEN [val |-> s[p], next |-> p + 1]
    ELSE IF s[p] < 192 THEN [val |-> (s[p] - 128) * 256 + s[p + 1], next |-> p + 2]
    ELSE [val |-> -1, next |-> p + 1]

\* n consecutive 7z numbers from index p
RECURSIVE ReadNumbers(_, _, _)
ReadNumbers(s, p, n) ==
    IF n = 0 THEN <<>>
    ELSE <<ReadNumber(s, p).val>> \o ReadNumbers(s, ReadNumber(s, p).next, n - 1)

\* the write() calls that returned, in call order
OkCalls == SelectSeq(calls, LAMBDA c : c.result = "ok")

LastCallOk == calls # <<>> /\ calls[Len(calls)].result = "ok"
LastCallRaised == calls # <<>> /\ calls[Len(calls)].result = "raised"

\* the signature-header trailer, bytes 8..31 of the file
StartHeaderCrc == SubSeq(fd, 9, 12)
NextHeaderOffsetField == SubSeq(fd, 13, 20)
NextHeaderSizeField == SubSeq(fd, 21, 28)
NextHeaderCrc == SubSeq(fd, 29, 32)
NextHeaderOffset == FieldInt(NextHeaderOffsetField)
NextHeaderSize == FieldInt(NextHeaderSizeField)

\* the end header as the trailer locates it in the file
HeaderInFile == SubSeq(fd, 32 + NextHeaderOffset + 1, 32 + NextHeaderOffset + NextHeaderSize)

\* the packed data region, from byte 32 up to the end header
PackedRegion == SubSeq(fd, 33, 32 + NextHeaderOffset)

\* where the writer put each block of the end header (offsets from 0 into the
\* header), for the entries it holds
PackInfoAt == Len(<<PROPERTY_HEADER, PROPERTY_MAIN_STREAMS_INFO>>)
PackSizesAt == PackInfoAt + 1 + Len(W64(0)) + Len(W64(Len(files))) + 1
UnpackInfoAt == PackInfoAt + Len(write_main_pack_info(files))
FolderCountAt == UnpackInfoAt + 2
FoldersAt == FolderCountAt + Len(W64(Len(files))) + 1
SubstreamsAt == UnpackInfoAt + Len(write_main_unpack_info(files))
DigestsAt == SubstreamsAt + 3
FilesInfoAt == SubstreamsAt + Len(write_main_substreams(files, platform)) + 1
NameSizeAt == FilesInfoAt + 1 + Len(W64(Len(files))) + 1
NameBodyAt == ReadNumber(HeaderInFile, NameSizeAt + 1).next - 1

\* the first index at or after p (from 1) of s that holds byte b, 0 if none
RECURSIVE FindByte(_, _, _)
FindByte(s, p, b) ==
    IF p > Len(s) THEN 0 ELSE IF s[p] = b THEN p ELSE FindByte(s, p + 1, b)

\* the unpack sizes follow the first coders'-unpack-size tag after the folders
UnpackSizesAt == FindByte(HeaderInFile, FoldersAt + 1, PROPERTY_CODERS_UNPACK_SIZE)

Utf16LE(name) ==
    Concat([j \in 1..Len(name) |->
              Utf16Char(name[j], [long_size |-> 4, byteorder |-> "little"])])

RECURSIVE SumLen(_)
SumLen(ss) == IF ss = <<>> THEN 0 ELSE Len(Head(ss)) + SumLen(Tail(ss))

RECURSIVE SumCompressed(_)
SumCompressed(fs) ==
    IF fs = <<>> THEN 0 ELSE Head(fs).compressed_size + SumCompressed(Tail(fs))

\* ------------------------------------------------------------------ VarInt shape
\* the number of significant bits of a U64
RECURSIVE ByteBits(_)
ByteBits(b) == IF b = 0 THEN 0 ELSE 1 + ByteBits(b \div 2)

BitLength(v) ==
    IF v = U64Zero THEN 0
    ELSE LET h == CHOOSE j \in 1..8 : v[j] # 0 /\ \A m \in (j + 1)..8 : v[m] = 0
         IN  8 * (h - 1) + ByteBits(v[h])

\* the smallest i in 0..8 with v < 2^(7*(i+1)), 8 when none below 8 qualifies
ExtraBytes(v) ==
    CHOOSE i \in 0..8 :
        /\ i = 8 \/ BitLength(v) <= 7 * (i + 1)
        /\ \A m \in 0..(i - 1) : BitLength(v) > 7 * (m + 1)

\* a byte with its top i bits set and the others clear
TopBits(i) == 256 - Pow2(8 - i)

\* the encoding the format prescribes for v
VarIntShape(v) ==
    LET i == ExtraBytes(v)
    IN  <<TopBits(i) + (IF i = 8 THEN 0 ELSE v[i + 1])>> \o SubSeq(v, 1, i)

\* the number of extra bytes a first byte announces: its leading one bits
Announced(b) == CHOOSE i \in 0..8 : b >= TopBits(i) /\ (i = 8 \/ b < TopBits(i + 1))

\* a stream that ends before the announced bytes
Truncated(buf) == buf = <<>> \/ Len(buf) - 1 < Announced(buf[1])

\* ------------------------------------------------------------------ claims
\* C1: VarInt round-trip: for every v in [0, 2^64), decode applied to the bytes
\* produced by encode(v) returns v.
C1_RoundTrip ==
    (c_pc = "decoded" /\ c_buf = c_enc) => c_out = [kind |-> "int", value |-> c_value]

\* C2: VarInt encoding shape: encode and SZFile._write_64_bit emit the same
\* bytes, 1+i bytes with i the smallest value in 0..8 such that v < 2^(7*(i+1))
\* (8 when none qualifies): byte 0 has its top i bits set and its low bits equal
\* to v >> (8*i), then come the low i bytes of v, little-endian; encode(0) = 00,
\* encode(8911) = A2 CF, encode(26948) = C0 44 69, and v >= 2^56 gives FF and
\* the 8 bytes of v.
C2_EncodingShape ==
    c_pc \in {"encoded", "cut", "decoded"} =>
        /\ c_enc = VarIntShape(c_value)
        /\ c_w64 = VarIntShape(c_value)
        /\ Len(c_enc) = 1 + ExtraBytes(c_value)
        /\ c_value = ToU64(0) => c_enc = <<0>>
        /\ c_value = ToU64(8911) => c_enc = <<162, 207>>
        /\ c_value = ToU64(26948) => c_enc = <<192, 68, 105>>
        /\ ~LtPow2(c_value, 56) => c_enc = <<255>> \o c_value

C2_Witness ==
    /\ c_pc = "encoded"
    /\ c_value = Pow2U64(56)
    /\ c_enc = <<255, 0, 0, 0, 0, 0, 0, 0, 1>>
    /\ c_w64 = c_enc

\* C3: VarInt decode on truncated input: when the first byte announces i extra
\* bytes and the stream holds fewer than i bytes after it, or the stream is
\* empty, decode ends in a FormatError outcome and never returns an integer.
\* decode has no exception type of its own: any exception it raises counts as
\* the FormatError outcome.
C3_TruncatedFails ==
    (c_pc = "decoded" /\ Truncated(c_buf)) => c_out.kind \in {"FormatError", "TypeError"}

\* C4: Trailer consistency: after every successful write(), the trailer at
\* bytes 8..31 describes the end header in the file: 32 + next_header_offset is
\* where the end-header bytes begin, right after the last packed byte,
\* next_header_size is their length, next_header_crc is their crc32, and
\* start_header_crc is the crc32 of the 20 bytes offset|size|crc.
C4_TrailerConsistent ==
    LastCallOk =>
        /\ FieldSmall(NextHeaderOffsetField)
        /\ FieldSmall(NextHeaderSizeField)
        /\ NextHeaderOffset = SumLen([j \in 1..Len(OkCalls) |-> OkCalls[j].packed])
        /\ 32 + NextHeaderOffset + NextHeaderSize <= Len(fd)
        /\ HeaderInFile = end_header
        /\ Head(HeaderInFile) = PROPERTY_HEADER
        /\ NextHeaderCrc = crc32(HeaderInFile, U32Zero)
        /\ StartHeaderCrc = crc32(SubSeq(fd, 13, 32), U32Zero)
        /\ SubSeq(fd, 1, 8) = MAGIC_7Z \o VERSION_7Z

C4_Witness ==
    /\ LastCallOk
    /\ Len(OkCalls) >= 2
    /\ \E n \in 1..Len(calls) : calls[n].result = "raised"

\* C5: Packed region matches the entries: after any sequence of successful
\* write() calls, also with a source path passed more than once, there is one
\* Entry Record per write() call in call order, the packed region from byte 32
\* up to the end header is the concatenation of the entries' compressed bytes,
\* the number of pack streams equals the number of write() calls and the
\* recorded compressed_size values sum to next_header_offset.
C5_PackedMatchesEntries ==
    LastCallOk =>
        /\ Len(files) = Len(OkCalls)
        /\ \A j \in 1..Len(OkCalls) :
              j <= Len(files) =>
                  /\ files[j].filename = OkCalls[j].filename
                  /\ files[j].compressed_size = Len(OkCalls[j].packed)
        /\ PackedRegion = Concat([j \in 1..Len(OkCalls) |-> OkCalls[j].packed])
        /\ ReadNumber(HeaderInFile, ReadNumber(HeaderInFile, PackInfoAt + 2).next).val
               = Len(OkCalls)
        /\ SumCompressed(files) = NextHeaderOffset

\* the write() calls that returned were for distinct files
DistinctFiles ==
    \A j, m \in 1..Len(OkCalls) : OkCalls[j].filename = OkCalls[m].filename => j = m

\* C6: Entry ordering across blocks: for write() calls on distinct files
\* f1..fk, the end header lists pack sizes, unpack sizes, CRC digests and names
\* each in the order f1..fk: the j-th element of each block belongs to fj.
C6_BlocksInOrder ==
    (LastCallOk /\ DistinctFiles) =>
        LET h == HeaderInFile
            k == Len(OkCalls)
        IN  /\ ReadNumbers(h, PackSizesAt + 1, k)
                  = [j \in 1..k |-> Len(OkCalls[j].packed)]
            /\ UnpackSizesAt > 0
            /\ ReadNumbers(h, UnpackSizesAt + 1, k)
                  = [j \in 1..k |-> Len(OkCalls[j].data)]
            /\ \A j \in 1..k :
                  SubSeq(h, DigestsAt + 4 * (j - 1) + 1, DigestsAt + 4 * j)
                      = crc32(OkCalls[j].data, U32Zero)
            /\ LET names == Concat([j \in 1..k |-> Utf16LE(OkCalls[j].filename) \o <<0, 0>>])
               IN  SubSeq(h, NameBodyAt + 2, NameBodyAt + 1 + Len(names)) = names

\* C7: Idempotence of close(): in any sequence open, write()*, close(),
\* close() (the explicit close() followed by the context-manager exit
\* included), the second close() is a no-op or fails with an error and leaves
\* every byte of the output, the trailer at bytes 8..31 in particular, as it
\* was after the first close(); close() itself never writes trailer values.
C7_CloseIdempotent ==
    [][/\ last'.op \in {"close", "__exit__"} => fd' = fd
       /\ closed => /\ closed'
                    /\ fd' = fd
                    /\ disk' = disk
                    /\ disk' = fd'
                    /\ last'.op \in {"close", "__exit__"} => last'.result = "ValueError"]_vars

C7_Witness ==
    /\ closed
    /\ last = Result("__exit__", "ValueError")
    /\ LastCallOk
    /\ disk = fd
    /\ Len(disk) > 32

\* the folder descriptor of one entry: coder count 1, coder info 0x21, the
\* LZMA2 method id, properties length 1, the dictionary-size property byte
FolderDescriptor == <<1, 33, 33, 1, 6>>

\* C8: Folder descriptors: for every entry count k >= 1, the unpack-info block
\* declares k folders and then holds k folder descriptors, one per entry,
\* before the coders'-unpack-size tag.
C8_FolderPerEntry ==
    LastCallOk =>
        LET h == HeaderInFile
            k == Len(files)
        IN  /\ k >= 1
            /\ ReadNumber(h, FolderCountAt + 1).val = k
            /\ \A j \in 1..k :
                  SubSeq(h, FoldersAt + 5 * (j - 1) + 1, FoldersAt + 5 * j) = FolderDescriptor
            /\ h[FoldersAt + 5 * k + 1] = PROPERTY_CODERS_UNPACK_SIZE

\* the UTF-16 code units of a name
RECURSIVE Utf16Units(_)
Utf16Units(name) ==
    IF name = <<>> THEN 0
    ELSE (IF Head(name) < 65536 THEN 1 ELSE 2) + Utf16Units(Tail(name))

RECURSIVE NameBodyLen(_)
NameBodyLen(fs) ==
    IF fs = <<>> THEN 1 ELSE NameBodyLen(Tail(fs)) + 2 * Utf16Units(Head(fs).filename) + 2

\* C9: Name property length prefix: for every entry count k >= 1, the size
\* written after the name property tag equals the number of bytes of the
\* property's body: the external-flag byte and, for each entry, its UTF-16
\* name bytes and its 2-byte terminator.
C9_NameSizeIsBodyLength ==
    LastCallOk =>
        LET h == HeaderInFile
            size == ReadNumber(h, NameSizeAt + 1).val
        IN  /\ h[NameSizeAt] = FILE_PROPERTY_NAME
            /\ size = NameBodyLen(files)
            /\ h[NameBodyAt + size + 1] = FILE_PROPERTY_LAST_WRITE_TIME

\* C10: A failed write leaves the writer state unchanged: when write() fails
\* in stat or in the Stream Compressor, the entries and the write cursor are
\* what they were before the call; a later successful write() starts at that
\* cursor and yields a trailer and an end header that list exactly the
\* successfully added entries.
C10_FailedWriteFrame ==
    /\ LastCallRaised =>
          /\ files = calls[Len(calls)].before
          /\ src_pos = calls[Len(calls)].at
    /\ \A n \in 2..Len(calls) :
          (calls[n].result = "ok" /\ calls[n - 1].result = "raised") =>
              calls[n].at = calls[n - 1].at
    /\ (LastCallOk /\ \E n \in 1..Len(calls) : calls[n].result = "raised") =>
          LET h == HeaderInFile
              k == Len(OkCalls)
          IN  /\ NextHeaderOffset = SumLen([j \in 1..k |-> OkCalls[j].packed])
              /\ ReadNumber(h, ReadNumber(h, PackInfoAt + 2).next).val = k
              /\ ReadNumber(h, FilesInfoAt + 2).val = k
              /\ ReadNumbers(h, PackSizesAt + 1, k) = [j \in 1..k |-> Len(OkCalls[j].packed)]

====
